---------------------------- MODULE Spec2Model ----------------------------
(***************************************************************************)
(* Model of src/main.cpp: main() runs HelloTriangleApplication::run(),     *)
(* i.e. initWindow, the five bootstrap stages of initVulkan, mainLoop and  *)
(* cleanup.  A stage that throws std::runtime_error unwinds to the catch   *)
(* block of main().  The driver's answers (layer catalog, extension        *)
(* catalog, VkResult codes, physical devices with their queue families,    *)
(* resolution of the debug-utils entry points) are the inputs.             *)
(***************************************************************************)
EXTENDS Integers, Sequences, FiniteSets, TLC

VARIABLES
    enableValidationLayers, \* main.cpp:28-34, compile-time flag
    layerCatalog,           \* what vkEnumerateInstanceLayerProperties reports
    extensionCatalog,       \* what vkEnumerateInstanceExtensionProperties reports
    procAddr,               \* what vkGetInstanceProcAddr answered, per name
    messengerResult,        \* <<VkResult of CreateDebugUtilsMessengerEXT>>, <<>> before
    windowShouldClose,      \* <<last answer of glfwWindowShouldClose>>, <<>> before
    pc,                     \* position of the single thread
    window,                 \* GLFWwindow* window
    instance,               \* VkInstance instance
    debugMessenger,         \* VkDebugUtilsMessengerEXT debugMessenger
    surface,                \* VkSurfaceKHR surface
    deviceCount,            \* number of handles vkEnumeratePhysicalDevices reported
    deviceFamilies,         \* queue families reported for each device queried
    physicalDevice,         \* VkPhysicalDevice physicalDevice (index, 0 = null)
    device,                 \* VkDevice device
    instanceInfo,           \* VkInstanceCreateInfo handed to vkCreateInstance
    deviceInfo,             \* VkDeviceCreateInfo handed to vkCreateDevice
    graphicsQueue,          \* VkQueue graphicsQueue: <<>> or <<binding>>
    error,                  \* what() of the exception in flight, <<>> if none
    exitStatus,             \* <<value returned by main>>, <<>> before it returns
    out,                    \* lines written to std::cout
    calls,                  \* number of calls made to each driver entry point
    examined,               \* device indices handed to isDeviceSuitable
    started,                \* bootstrap stages entered, in order
    completed,              \* bootstrap stages that returned normally
    created,                \* handle kinds in order of creation
    destroyed               \* handle kinds in order of destruction

vars == <<enableValidationLayers, layerCatalog, extensionCatalog, procAddr,
          messengerResult, windowShouldClose, pc, window, instance,
          debugMessenger, surface, deviceCount, deviceFamilies, physicalDevice, device,
          instanceInfo, deviceInfo, graphicsQueue, error, exitStatus, out,
          calls, examined, started, completed, created, destroyed>>

-----------------------------------------------------------------------------
(* Bounds of the model *)

MaxFamilies == 3
MaxDevices == 2

-----------------------------------------------------------------------------
(* Program constants *)

validationLayers == <<"VK_LAYER_KHRONOS_validation">>

VK_QUEUE_GRAPHICS_BIT == 1
VK_NULL_HANDLE == 0
EXIT_SUCCESS == 0
EXIT_FAILURE == 1

\* what() of each std::runtime_error the program throws, by error kind.
CapabilityUnavailable == <<"validation layers requested, but not available!">>
ContextCreationFailed == <<"failed to create instance!">>
DiagnosticsBridgeUnavailable == <<"failed to set up debug messenger!">>
SurfaceCreationFailed == <<"failed to create window surface!">>
NoDeviceFound == <<"failed to find GPUs with Vulkan support!">>
NoSuitableDevice == <<"failed to find a suitable GPU!">>
DeviceCreationFailed == <<"failed to create logical device!">>
\* std::optional::value() on an empty optional (main.cpp:379).
BadOptionalAccess == <<"bad optional access">>
NoError == <<>>

\* The stages of initVulkan, in call order.
initVulkan_surfaceFirst ==
    <<"createInstance", "createSurface", "setupDebugMessenger",
      "pickPhysicalDevice", "createLogicalDevice">>

initVulkan ==
    <<"createInstance", "setupDebugMessenger", "createSurface",
      "pickPhysicalDevice", "createLogicalDevice">>

-----------------------------------------------------------------------------
(* Driver and windowing-library inputs *)

LayerNames == {"VK_LAYER_KHRONOS_validation", "VK_LAYER_LUNARG_api_dump"}

\* A layer catalog lists each layer the driver has once, in any order.
LayerCatalogs ==
    {<<>>} \cup {<<l>> : l \in LayerNames}
           \cup {<<l, m>> : <<l, m>> \in {p \in LayerNames \X LayerNames : p[1] # p[2]}}

glfwExtensions == <<"VK_KHR_surface", "VK_KHR_xcb_surface">>
VK_EXT_DEBUG_UTILS_EXTENSION_NAME == "VK_EXT_debug_utils"
ExtensionNames == {"VK_KHR_surface", "VK_KHR_xcb_surface", "VK_EXT_debug_utils"}

\* An extension catalog has every known extension, or all but one of them.
ExtensionCatalogs == {ExtensionNames} \cup {ExtensionNames \ {e} : e \in ExtensionNames}

VkResults == {"VK_SUCCESS", "VK_ERROR_INITIALIZATION_FAILED"}

\* queueFlags words the driver may report: 2 is compute only
\* (VK_QUEUE_COMPUTE_BIT), 3 is graphics and compute.
QueueFlagValues == {2, 3}

SeqsUpTo(S, n) == UNION {[1..k -> S] : k \in 0..n}

\* A physical device is its vector of queue-family flag words.
FamilyLists == SeqsUpTo(QueueFlagValues, MaxFamilies)
DeviceLists == SeqsUpTo(FamilyLists, MaxDevices)

-----------------------------------------------------------------------------
(* Pure helpers *)

RECURSIVE BitAnd(_, _)
BitAnd(a, b) ==
    IF a = 0 \/ b = 0 THEN 0
    ELSE (a % 2) * (b % 2) + 2 * BitAnd(a \div 2, b \div 2)

\* strcmp(name, x) == 0 for some x of the vector, scanning in index order.
RECURSIVE FoundIn(_, _, _)
FoundIn(name, vec, k) ==
    IF k > Len(vec) THEN FALSE
    ELSE IF name = vec[k] THEN TRUE
    ELSE FoundIn(name, vec, k + 1)

\* The loop of checkValidationLayerSupport from required layer k on.
RECURSIVE LayersFoundFrom(_, _, _)
LayersFoundFrom(required, availableLayers, k) ==
    IF k > Len(required) THEN TRUE
    ELSE IF ~FoundIn(required[k], availableLayers, 1) THEN FALSE
    ELSE LayersFoundFrom(required, availableLayers, k + 1)

checkValidationLayerSupport_alwaysTrue(availableLayers) == TRUE

checkValidationLayerSupport(availableLayers) ==
    LayersFoundFrom(validationLayers, availableLayers, 1)

\* The condition of createInstance's first if is enableValidationLayers &&
\* !checkValidationLayerSupport(): the right operand is evaluated only when
\* the left one is true.
layerCheckEvaluated_always == TRUE

layerCheckEvaluated == enableValidationLayers

getRequiredExtensions ==
    IF enableValidationLayers
    THEN Append(glfwExtensions, VK_EXT_DEBUG_UTILS_EXTENSION_NAME)
    ELSE glfwExtensions

\* vk_extensions is the set of names the driver reported.
RECURSIVE ExtensionsFoundFrom(_, _, _)
ExtensionsFoundFrom(glfw_extensions, vk_extensions, k) ==
    IF k > Len(glfw_extensions) THEN TRUE
    ELSE IF glfw_extensions[k] \notin vk_extensions THEN FALSE
    ELSE ExtensionsFoundFrom(glfw_extensions, vk_extensions, k + 1)

isGLFWExtensionsSupported(glfw_extensions, vk_extensions) ==
    ExtensionsFoundFrom(glfw_extensions, vk_extensions, 1)

\* The loop of findQueueFamilies at family k (1-based), i = k - 1;
\* the optional graphicsFamily is <<>> (empty) or <<i>>.
RECURSIVE FindFrom(_, _)
FindFrom(queueFamilies, k) ==
    IF k > Len(queueFamilies) THEN <<>>
    ELSE IF BitAnd(queueFamilies[k], VK_QUEUE_GRAPHICS_BIT) # 0 THEN <<k - 1>>
    ELSE FindFrom(queueFamilies, k + 1)

\* The same loop without the break: the last graphics family wins.
RECURSIVE FindLastFrom(_, _, _)
FindLastFrom(queueFamilies, k, found) ==
    IF k > Len(queueFamilies) THEN found
    ELSE IF BitAnd(queueFamilies[k], VK_QUEUE_GRAPHICS_BIT) # 0
         THEN FindLastFrom(queueFamilies, k + 1, <<k - 1>>)
    ELSE FindLastFrom(queueFamilies, k + 1, found)

findQueueFamilies_noBreak(queueFamilies) == FindLastFrom(queueFamilies, 1, <<>>)

findQueueFamilies(queueFamilies) == FindFrom(queueFamilies, 1)

isComplete(indices) == Len(indices) = 1

isDeviceSuitable_any(queueFamilies) == TRUE

isDeviceSuitable(queueFamilies) == isComplete(findQueueFamilies(queueFamilies))

\* The device loop of pickPhysicalDevice from device k on: the devices
\* examined (only those have their queue families queried) and the value
\* physicalDevice has after the loop.
RECURSIVE PickFrom(_, _, _)
PickFrom(devs, k, seen) ==
    IF k > Len(devs) THEN [examined |-> seen, physicalDevice |-> VK_NULL_HANDLE]
    ELSE IF isDeviceSuitable(devs[k])
         THEN [examined |-> seen \cup {k}, physicalDevice |-> k]
    ELSE PickFrom(devs, k + 1, seen \cup {k})

-----------------------------------------------------------------------------
(* Control flow *)

StageAfter(stage) ==
    LET k == CHOOSE i \in DOMAIN initVulkan : initVulkan[i] = stage
    IN  IF k < Len(initVulkan) THEN initVulkan[k + 1] ELSE "mainLoop"

Init ==
    /\ enableValidationLayers \in BOOLEAN
    /\ layerCatalog \in LayerCatalogs
    /\ extensionCatalog \in ExtensionCatalogs
    /\ procAddr = [vkCreateDebugUtilsMessengerEXT |-> "unqueried",
                   vkDestroyDebugUtilsMessengerEXT |-> "unqueried"]
    /\ messengerResult = <<>>
    /\ windowShouldClose = <<>>
    /\ pc = "main"
    /\ window = "uninit"
    /\ instance = "uninit"
    /\ debugMessenger = "uninit"
    /\ surface = "uninit"
    /\ deviceCount = 0
    /\ deviceFamilies = <<>>
    /\ physicalDevice = VK_NULL_HANDLE
    /\ device = "uninit"
    /\ instanceInfo = <<>>
    /\ deviceInfo = <<>>
    /\ graphicsQueue = <<>>
    /\ error = NoError
    /\ exitStatus = <<>>
    /\ out = <<>>
    /\ calls = [vkEnumerateInstanceLayerProperties |-> 0,
                checkValidationLayerSupport |-> 0,
                vkCreateInstance |-> 0,
                DestroyDebugUtilsMessengerEXT |-> 0,
                vkEnumeratePhysicalDevices |-> 0,
                vkGetDeviceQueue |-> 0]
    /\ examined = {}
    /\ started = <<>>
    /\ completed = <<>>
    /\ created = <<>>
    /\ destroyed = <<>>

\* main() up to app.run(): the banner line.
mainStart ==
    /\ pc = "main"
    /\ out' = Append(out, IF enableValidationLayers
                          THEN "VALIDATION LAYERS ENABLED!"
                          ELSE "VALIDATION LAYERS DISABLED!")
    /\ pc' = "initWindow"
    /\ UNCHANGED <<enableValidationLayers, layerCatalog, extensionCatalog,
                   procAddr, messengerResult, windowShouldClose, window, instance,
                   debugMessenger, surface, deviceCount, deviceFamilies, physicalDevice, device,
                   instanceInfo, deviceInfo, graphicsQueue, error, exitStatus,
                   calls, examined, started, completed, created, destroyed>>

initWindow ==
    /\ pc = "initWindow"
    /\ window' = "live"
    /\ pc' = initVulkan[1]
    /\ UNCHANGED <<enableValidationLayers, layerCatalog, extensionCatalog,
                   procAddr, messengerResult, windowShouldClose, instance,
                   debugMessenger, surface, deviceCount, deviceFamilies, physicalDevice, device,
                   instanceInfo, deviceInfo, graphicsQueue, error, exitStatus,
                   out, calls, examined, started, completed, created,
                   destroyed>>

\* A stage that throws: the exception leaves run() and reaches main's catch.
Throw(what) ==
    /\ error' = what
    /\ pc' = "catch"

\* A stage that returns normally: initVulkan calls the next one.
Return_blocks(stage) ==
    /\ completed' = completed
    /\ pc' = "blocked"
    /\ error' = error

Return(stage) ==
    /\ completed' = Append(completed, stage)
    /\ pc' = StageAfter(stage)
    /\ error' = error

\* What createInstance does with the answer of isGLFWExtensionsSupported
\* besides printing it: both branches of the if only print, none throws.
extensionCheckAborts_whenUnsupported(supported) == ~supported

extensionCheckAborts(supported) == FALSE

createInstance ==
    /\ pc = "createInstance"
    /\ started' = Append(started, "createInstance")
    /\ LET afterLayerCheck ==
               IF layerCheckEvaluated
               THEN [calls EXCEPT !.checkValidationLayerSupport = @ + 1,
                                  !.vkEnumerateInstanceLayerProperties = @ + 2]
               ELSE calls
           extensions == getRequiredExtensions
           createInfo ==
               [enabledExtensions |-> extensions,
                enabledLayers |-> IF enableValidationLayers
                                  THEN validationLayers ELSE <<>>,
                pNext |-> IF enableValidationLayers
                          THEN "debugCreateInfo" ELSE "nullptr"]
           supported == isGLFWExtensionsSupported(extensions, extensionCatalog)
       IN  IF enableValidationLayers /\ ~checkValidationLayerSupport(layerCatalog)
           THEN /\ Throw(CapabilityUnavailable)
                /\ calls' = afterLayerCheck
                /\ UNCHANGED <<instance, instanceInfo, out, completed, created>>
           ELSE /\ out' = Append(out, IF supported
                                      THEN "All extensions supported: true"
                                      ELSE "All extensions supported: false")
                /\ IF extensionCheckAborts(supported)
                   THEN /\ Throw(CapabilityUnavailable)
                        /\ calls' = afterLayerCheck
                        /\ UNCHANGED <<instance, instanceInfo, completed, created>>
                   ELSE \E result \in VkResults :
                        /\ instanceInfo' = <<createInfo>>
                        /\ calls' = [afterLayerCheck EXCEPT !.vkCreateInstance = @ + 1]
                        /\ IF result # "VK_SUCCESS"
                           THEN /\ Throw(ContextCreationFailed)
                                /\ UNCHANGED <<instance, completed, created>>
                           ELSE /\ instance' = "live"
                                /\ created' = Append(created, "Context")
                                /\ Return("createInstance")
    /\ UNCHANGED <<enableValidationLayers, layerCatalog, extensionCatalog,
                   procAddr, messengerResult, windowShouldClose, window,
                   debugMessenger, surface, deviceCount, deviceFamilies,
                   physicalDevice, device, deviceInfo, graphicsQueue,
                   exitStatus, examined, destroyed>>

\* CreateDebugUtilsMessengerEXT: resolve the entry point by name, call it if
\* present, report VK_ERROR_EXTENSION_NOT_PRESENT otherwise.
CreateDebugUtilsMessengerEXT_skipsSilently(func, funcResult) ==
    IF func # "nullptr" THEN funcResult ELSE "VK_SUCCESS"

CreateDebugUtilsMessengerEXT(func, funcResult) ==
    IF func # "nullptr" THEN funcResult ELSE "VK_ERROR_EXTENSION_NOT_PRESENT"

setupDebugMessenger ==
    /\ pc = "setupDebugMessenger"
    /\ started' = Append(started, "setupDebugMessenger")
    /\ IF ~enableValidationLayers
       THEN /\ Return("setupDebugMessenger")
            /\ UNCHANGED <<debugMessenger, created, procAddr, messengerResult>>
       ELSE \E func \in {"nullptr", "resolved"}, funcResult \in VkResults :
            LET result == CreateDebugUtilsMessengerEXT(func, funcResult)
            IN  /\ procAddr' =
                       [procAddr EXCEPT !.vkCreateDebugUtilsMessengerEXT = func]
                /\ messengerResult' = <<result>>
                /\ IF result # "VK_SUCCESS"
                   THEN /\ Throw(DiagnosticsBridgeUnavailable)
                        /\ UNCHANGED <<debugMessenger, completed, created>>
                   ELSE \* the messenger exists only if the entry point ran
                        /\ debugMessenger' =
                               IF func # "nullptr" THEN "live" ELSE debugMessenger
                        /\ created' = IF func # "nullptr"
                                      THEN Append(created, "Diagnostics")
                                      ELSE created
                        /\ Return("setupDebugMessenger")
    /\ UNCHANGED <<enableValidationLayers, layerCatalog, extensionCatalog,
                   windowShouldClose, window, instance, surface, deviceCount,
                   deviceFamilies, physicalDevice, device, instanceInfo,
                   deviceInfo, graphicsQueue, exitStatus, out, calls,
                   examined, destroyed>>

createSurface ==
    /\ pc = "createSurface"
    /\ started' = Append(started, "createSurface")
    /\ \E result \in VkResults :
        IF result # "VK_SUCCESS"
        THEN /\ Throw(SurfaceCreationFailed)
             /\ UNCHANGED <<surface, completed, created>>
        ELSE /\ surface' = "live"
             /\ created' = Append(created, "Surface")
             /\ Return("createSurface")
    /\ UNCHANGED <<enableValidationLayers, layerCatalog, extensionCatalog,
                   procAddr, messengerResult, windowShouldClose, window, instance,
                   debugMessenger, deviceCount, deviceFamilies, physicalDevice, device,
                   instanceInfo, deviceInfo, graphicsQueue, exitStatus, out,
                   calls, examined, destroyed>>

\* if (deviceCount == 0) in pickPhysicalDevice.
deviceCountIsZero_never(count) == FALSE

deviceCountIsZero(count) == count = 0

pickPhysicalDevice ==
    /\ pc = "pickPhysicalDevice"
    /\ started' = Append(started, "pickPhysicalDevice")
    /\ \E devs \in DeviceLists :
        LET picked == PickFrom(devs, 1, {})
        IN  /\ deviceCount' = Len(devs)
            /\ IF deviceCountIsZero(Len(devs))
               THEN /\ calls' = [calls EXCEPT !.vkEnumeratePhysicalDevices = @ + 1]
                    /\ Throw(NoDeviceFound)
                    /\ UNCHANGED <<deviceFamilies, physicalDevice, examined,
                                   completed>>
               ELSE /\ calls' = [calls EXCEPT !.vkEnumeratePhysicalDevices = @ + 2]
                    /\ examined' = picked.examined
                    /\ deviceFamilies' = [k \in picked.examined |-> devs[k]]
                    /\ physicalDevice' =
                           IF picked.physicalDevice # VK_NULL_HANDLE
                           THEN picked.physicalDevice ELSE physicalDevice
                    /\ IF physicalDevice' = VK_NULL_HANDLE
                       THEN /\ Throw(NoSuitableDevice)
                            /\ UNCHANGED completed
                       ELSE Return("pickPhysicalDevice")
    /\ UNCHANGED <<enableValidationLayers, layerCatalog, extensionCatalog,
                   procAddr, messengerResult, windowShouldClose, window, instance,
                   debugMessenger, surface, device, instanceInfo, deviceInfo,
                   graphicsQueue, exitStatus, out, created, destroyed>>

\* The arguments of vkGetDeviceQueue: the device made from physicalDevice,
\* indices.graphicsFamily.value(), queue index 0.
vkGetDeviceQueue_index1(pd, indices) ==
    [physicalDevice |-> pd, queueFamilyIndex |-> indices[1], queueIndex |-> 1]

vkGetDeviceQueue(pd, indices) ==
    [physicalDevice |-> pd, queueFamilyIndex |-> indices[1], queueIndex |-> 0]

\* What vkGetPhysicalDeviceQueueFamilyProperties reports for a handle: a
\* device answers what it answered when first queried; for a null handle the
\* call is undefined, any answer.
QueueFamilyProperties(pd) ==
    IF pd \in DOMAIN deviceFamilies THEN {deviceFamilies[pd]} ELSE FamilyLists

\* The layers createLogicalDevice puts in VkDeviceCreateInfo.
deviceEnabledLayers_none == <<>>

deviceEnabledLayers ==
    IF enableValidationLayers THEN validationLayers ELSE <<>>

createLogicalDevice ==
    /\ pc = "createLogicalDevice"
    /\ started' = Append(started, "createLogicalDevice")
    /\ \E queueFamilies \in QueueFamilyProperties(physicalDevice),
          result \in VkResults :
        LET indices == findQueueFamilies(queueFamilies)
        IN  IF ~isComplete(indices)
            THEN /\ Throw(BadOptionalAccess)
                 /\ UNCHANGED <<device, deviceInfo, graphicsQueue, calls,
                                completed, created>>
            ELSE /\ deviceInfo' =
                        <<[queueCreateInfoCount |-> 1,
                           queueFamilyIndex |-> indices[1],
                           queueCount |-> 1,
                           enabledExtensionCount |-> 0,
                           enabledLayers |-> deviceEnabledLayers]>>
                 /\ IF result # "VK_SUCCESS"
                    THEN /\ Throw(DeviceCreationFailed)
                         /\ UNCHANGED <<device, graphicsQueue, calls,
                                        completed, created>>
                    ELSE /\ device' = "live"
                         /\ created' = Append(created, "Device")
                         /\ graphicsQueue' =
                                <<vkGetDeviceQueue(physicalDevice, indices)>>
                         /\ calls' = [calls EXCEPT !.vkGetDeviceQueue = @ + 1]
                         /\ Return("createLogicalDevice")
    /\ UNCHANGED <<enableValidationLayers, layerCatalog, extensionCatalog,
                   procAddr, messengerResult, windowShouldClose, window, instance,
                   debugMessenger, surface, deviceCount, deviceFamilies, physicalDevice,
                   instanceInfo, exitStatus, out, examined, destroyed>>

\* The condition of the while loop of mainLoop.
loopCondition_inverted(shouldClose) == shouldClose

loopCondition(shouldClose) == ~shouldClose

\* One evaluation of the loop condition of mainLoop, and glfwPollEvents when
\* the window is to stay open.
mainLoop ==
    /\ pc = "mainLoop"
    /\ \E shouldClose \in BOOLEAN :
        /\ windowShouldClose' = <<shouldClose>>
        /\ pc' = IF loopCondition(shouldClose) THEN pc ELSE "cleanup"
    /\ UNCHANGED <<enableValidationLayers, layerCatalog, extensionCatalog,
                   procAddr, messengerResult, window, instance,
                   debugMessenger, surface, deviceCount, deviceFamilies,
                   physicalDevice, device, instanceInfo, deviceInfo,
                   graphicsQueue, error, exitStatus, out, calls, examined,
                   started, completed, created, destroyed>>

\* DestroyDebugUtilsMessengerEXT: call the entry point if it resolves.
DestroyDebugUtilsMessengerEXT(func) == func # "nullptr"

cleanup ==
    /\ pc = "cleanup"
    /\ \E func \in {"nullptr", "resolved"} :
        LET messengerDestroyed ==
                enableValidationLayers /\ DestroyDebugUtilsMessengerEXT(func)
        IN  /\ device' = "destroyed"
            /\ procAddr' =
                   IF enableValidationLayers
                   THEN [procAddr EXCEPT !.vkDestroyDebugUtilsMessengerEXT = func]
                   ELSE procAddr
            /\ calls' =
                   IF enableValidationLayers
                   THEN [calls EXCEPT !.DestroyDebugUtilsMessengerEXT = @ + 1]
                   ELSE calls
            /\ debugMessenger' =
                   IF messengerDestroyed THEN "destroyed" ELSE debugMessenger
            /\ surface' = "destroyed"
            /\ instance' = "destroyed"
            /\ window' = "destroyed"
            /\ destroyed' = destroyed \o <<"Device">>
                   \o (IF messengerDestroyed THEN <<"Diagnostics">> ELSE <<>>)
                   \o <<"Surface", "Context">>
    /\ pc' = "return"
    /\ UNCHANGED <<enableValidationLayers, layerCatalog, extensionCatalog,
                   messengerResult, windowShouldClose, deviceCount,
                   deviceFamilies, physicalDevice, instanceInfo, deviceInfo,
                   graphicsQueue, error, exitStatus, out, examined, started,
                   completed, created>>

\* main: run() returned.
mainReturn ==
    /\ pc = "return"
    /\ exitStatus' = <<EXIT_SUCCESS>>
    /\ pc' = "done"
    /\ UNCHANGED <<enableValidationLayers, layerCatalog, extensionCatalog,
                   procAddr, messengerResult, windowShouldClose, window, instance,
                   debugMessenger, surface, deviceCount, deviceFamilies, physicalDevice, device,
                   instanceInfo, deviceInfo, graphicsQueue, error, out, calls,
                   examined, started, completed, created, destroyed>>

\* main: the catch block.
mainCatch_success ==
    /\ pc = "catch"
    /\ exitStatus' = <<EXIT_SUCCESS>>
    /\ pc' = "done"
    /\ UNCHANGED <<enableValidationLayers, layerCatalog, extensionCatalog,
                   procAddr, messengerResult, windowShouldClose, window, instance,
                   debugMessenger, surface, deviceCount, deviceFamilies, physicalDevice, device,
                   instanceInfo, deviceInfo, graphicsQueue, error, out, calls,
                   examined, started, completed, created, destroyed>>

mainCatch ==
    /\ pc = "catch"
    /\ exitStatus' = <<EXIT_FAILURE>>
    /\ pc' = "done"
    /\ UNCHANGED <<enableValidationLayers, layerCatalog, extensionCatalog,
                   procAddr, messengerResult, windowShouldClose, window, instance,
                   debugMessenger, surface, deviceCount, deviceFamilies, physicalDevice, device,
                   instanceInfo, deviceInfo, graphicsQueue, error, out, calls,
                   examined, started, completed, created, destroyed>>

Next ==
    \/ mainStart
    \/ initWindow
    \/ createInstance
    \/ setupDebugMessenger
    \/ createSurface
    \/ pickPhysicalDevice
    \/ createLogicalDevice
    \/ mainLoop
    \/ cleanup
    \/ mainReturn
    \/ mainCatch

Spec == Init /\ [][Next]_vars

\* The steps from the start of main to the end of initVulkan.  The program
\* is one thread of blocking calls: a step that can be taken is taken.
Bootstrap ==
    \/ mainStart
    \/ initWindow
    \/ createInstance
    \/ setupDebugMessenger
    \/ createSurface
    \/ pickPhysicalDevice
    \/ createLogicalDevice

LiveSpec == Init /\ [][Next]_vars /\ WF_vars(Bootstrap)

-----------------------------------------------------------------------------
(* Vocabulary of the properties, stated independently of the operators above *)

Range(s) == {s[i] : i \in DOMAIN s}

Reverse(s) == [i \in 1..Len(s) |-> s[Len(s) + 1 - i]]

Count(s, x) == Cardinality({i \in DOMAIN s : s[i] = x})

NoDuplicates(s) == \A i, j \in DOMAIN s : s[i] = s[j] => i = j

IsPrefix(s, t) == Len(s) <= Len(t) /\ \A i \in DOMAIN s : s[i] = t[i]

BootstrapOrder ==
    <<"createInstance", "setupDebugMessenger", "createSurface",
      "pickPhysicalDevice", "createLogicalDevice">>

\* A flag word with the graphics bit (bit 0) set is an odd number.
GraphicsFamilies(queueFamilies) ==
    {f \in DOMAIN queueFamilies : queueFamilies[f] % 2 = 1}

HasGraphics(queueFamilies) == GraphicsFamilies(queueFamilies) # {}

\* 0-based index of the first graphics family.
LeastGraphicsFamily(queueFamilies) ==
    (CHOOSE f \in GraphicsFamilies(queueFamilies) :
        \A g \in GraphicsFamilies(queueFamilies) : f <= g) - 1

MissingLayers == {i \in DOMAIN validationLayers :
                    validationLayers[i] \notin Range(layerCatalog)}

Exited == pc = "done"

RequiredExtensions ==
    glfwExtensions \o (IF enableValidationLayers
                       THEN <<"VK_EXT_debug_utils">> ELSE <<>>)

MissingExtensions == {i \in DOMAIN RequiredExtensions :
                        RequiredExtensions[i] \notin extensionCatalog}

\* The layer check of createInstance let the stage go on.
PastLayerCheck ==
    Len(started) >= 1 /\ ~(enableValidationLayers /\ MissingLayers # {})

-----------------------------------------------------------------------------
(* Properties *)

\* C1: on every exit path (normal return or a fatal error of any bootstrap
\* stage) every handle that was created has been released exactly once when
\* the process ends.
C1_EveryHandleReleasedOnExit ==
    Exited => \A h \in Range(created) : Count(destroyed, h) = 1

\* C2: for every successful run the sequence of destructions made by cleanup
\* is the exact reverse of the sequence of constructions made by initVulkan
\* (compared over the handles cleanup destroys, so that only the order is
\* judged here; whether every handle is destroyed is C1).
C2_TeardownReversesConstruction ==
    exitStatus = <<EXIT_SUCCESS>> =>
        destroyed = Reverse(SelectSeq(created, LAMBDA h : Count(destroyed, h) > 0))

\* C3: a handle of stage N is live only if every earlier stage completed
\* successfully, the stages run in bootstrap order, and after a failing stage
\* no later stage is started.
C3_StagesInOrderFailFast ==
    /\ IsPrefix(started, BootstrapOrder)
    /\ IsPrefix(completed, started)
    /\ Len(started) = Len(completed) + (IF error = NoError THEN 0 ELSE 1)
    /\ instance # "uninit" => Len(started) >= 1
    /\ debugMessenger # "uninit" => Len(completed) >= 1
    /\ surface # "uninit" => Len(completed) >= 2
    /\ physicalDevice # VK_NULL_HANDLE => Len(completed) >= 3
    /\ device # "uninit" => Len(completed) >= 4
    /\ graphicsQueue # <<>> => Len(completed) >= 4

C3_Witness ==
    /\ error = NoSuitableDevice
    /\ surface = "live"
    /\ started = SubSeq(BootstrapOrder, 1, 4)

\* C4: with diagnostics enabled and a required validation layer absent from
\* the driver's catalog, bootstrap aborts inside createInstance: the context
\* is never created, vkEnumeratePhysicalDevices is never called and no later
\* stage runs.
C4_MissingLayerAbortsBeforeEnumeration ==
    (enableValidationLayers /\ MissingLayers # {}) =>
        /\ instance = "uninit"
        /\ instanceInfo = <<>>
        /\ calls.vkEnumeratePhysicalDevices = 0
        /\ completed = <<>>
        /\ IsPrefix(started, <<"createInstance">>)
        /\ error \in {NoError, CapabilityUnavailable}
        /\ Exited => error = CapabilityUnavailable

C4_Witness ==
    /\ enableValidationLayers
    /\ MissingLayers # {}
    /\ Exited
    /\ started = <<"createInstance">>

\* C5: when negotiation fails for a missing layer, the error is
\* CapabilityUnavailable and its value names exactly the first required
\* layer that is missing from the catalog.
C5_ErrorNamesFirstMissingLayer ==
    (enableValidationLayers /\ MissingLayers # {} /\ Exited) =>
        /\ error = CapabilityUnavailable
        /\ Range(error) \cap LayerNames =
               {validationLayers[CHOOSE i \in MissingLayers :
                                    \A j \in MissingLayers : i <= j]}

\* C6: with diagnostics disabled, layer verification is never invoked,
\* whatever the catalog holds, and bootstrap never fails with
\* CapabilityUnavailable.
C6_NoLayerCheckWhenDisabled ==
    ~enableValidationLayers =>
        /\ calls.checkValidationLayerSupport = 0
        /\ calls.vkEnumerateInstanceLayerProperties = 0
        /\ error # CapabilityUnavailable

C6_Witness ==
    /\ ~enableValidationLayers
    /\ MissingLayers # {}
    /\ instance = "live"

\* C7: for a non-empty device list, pickPhysicalDevice selects the
\* lowest-indexed device that has a graphics queue family, devices after it
\* are never examined, and the queue family index found for it is the lowest
\* index whose flags include graphics.
C7_FirstFitDeviceAndFamily ==
    Len(completed) >= 4 =>
        /\ physicalDevice \in 1..deviceCount
        /\ DOMAIN deviceFamilies = examined
        /\ HasGraphics(deviceFamilies[physicalDevice])
        /\ \A k \in 1..(physicalDevice - 1) : ~HasGraphics(deviceFamilies[k])
        /\ examined = 1..physicalDevice
        /\ findQueueFamilies(deviceFamilies[physicalDevice]) =
               <<LeastGraphicsFamily(deviceFamilies[physicalDevice])>>
        /\ deviceInfo # <<>> =>
               deviceInfo[1].queueFamilyIndex =
                   LeastGraphicsFamily(deviceFamilies[physicalDevice])

C7_Witness ==
    /\ deviceCount = 2
    /\ deviceFamilies = << <<2>>, <<2, 2, 3>> >>
    /\ physicalDevice = 2
    /\ deviceInfo # <<>>
    /\ deviceInfo[1].queueFamilyIndex = 2

\* C8: device selection fails with NoDeviceFound exactly when the enumerated
\* list is empty and with NoSuitableDevice exactly when the list is non-empty
\* and no device has a graphics family; in both cases no logical device is
\* created.
C8_SelectionErrors ==
    /\ Len(started) < 4 => error \notin {NoDeviceFound, NoSuitableDevice}
    /\ Len(started) >= 4 =>
        /\ error = NoDeviceFound <=> deviceCount = 0
        /\ error = NoSuitableDevice <=>
               /\ deviceCount > 0
               /\ examined = 1..deviceCount
               /\ \A k \in 1..deviceCount : ~HasGraphics(deviceFamilies[k])
    /\ error \in {NoDeviceFound, NoSuitableDevice} =>
        /\ device = "uninit"
        /\ deviceInfo = <<>>
        /\ graphicsQueue = <<>>
        /\ physicalDevice = VK_NULL_HANDLE
        /\ Len(started) = 4

C8_Witness ==
    /\ error = NoDeviceFound
    /\ deviceCount = 0
    /\ examined = {}
    /\ Exited

\* C9: after a successful bootstrap exactly one queue handle has been
\* retrieved, bound to (the device made from the selected physical device,
\* the family index found for it, queue index 0); when device creation
\* fails, the error is DeviceCreationFailed and no queue is retrieved.
C9_QueueBinding ==
    /\ Len(completed) = 5 =>
        /\ calls.vkGetDeviceQueue = 1
        /\ device # "uninit"
        /\ graphicsQueue =
               <<[physicalDevice |-> physicalDevice,
                  queueFamilyIndex |->
                      LeastGraphicsFamily(deviceFamilies[physicalDevice]),
                  queueIndex |-> 0]>>
    /\ Len(completed) < 5 =>
        /\ calls.vkGetDeviceQueue = 0
        /\ graphicsQueue = <<>>
        /\ device = "uninit"
    /\ (Len(started) = 5 /\ Len(completed) = 4) => error = DeviceCreationFailed

C9_Witness ==
    /\ ~enableValidationLayers
    /\ deviceCount = 2
    /\ deviceFamilies = << <<2>>, <<3>> >>
    /\ graphicsQueue =
           <<[physicalDevice |-> 2, queueFamilyIndex |-> 0, queueIndex |-> 0]>>

\* C10: every error is terminal: after a stage fails no stage is started
\* again, the event loop is never entered and the process ends with a
\* non-zero status; the status is zero only if all stages succeeded and the
\* event loop exited.
C10_ErrorsAreTerminal ==
    /\ NoDuplicates(started)
    /\ error # NoError =>
        /\ pc \in {"catch", "done"}
        /\ Len(started) = Len(completed) + 1
        /\ Len(completed) < 5
        /\ destroyed = <<>>
        /\ exitStatus # <<EXIT_SUCCESS>>
        /\ Exited => exitStatus = <<EXIT_FAILURE>>
    /\ exitStatus = <<EXIT_SUCCESS>> =>
        /\ error = NoError
        /\ Len(completed) = 5
        /\ window = "destroyed"
    /\ Exited <=> exitStatus # <<>>
    /\ exitStatus \in {<<>>, <<EXIT_SUCCESS>>, <<EXIT_FAILURE>>}

C10_Witness ==
    /\ error = ContextCreationFailed
    /\ Exited
    /\ exitStatus = <<EXIT_FAILURE>>

\* C11: with diagnostics enabled, when vkCreateDebugUtilsMessengerEXT does
\* not resolve or the resolved creator returns non-success, bootstrap fails
\* with DiagnosticsBridgeUnavailable, neither surface creation nor device
\* enumeration happens, and no later stage ever runs with diagnostics
\* requested but no messenger created.
C11_MessengerFailureIsFatal ==
    /\ (\/ procAddr.vkCreateDebugUtilsMessengerEXT = "nullptr"
        \/ messengerResult \notin {<<>>, <<"VK_SUCCESS">>}) =>
        /\ error = DiagnosticsBridgeUnavailable
        /\ started = <<"createInstance", "setupDebugMessenger">>
        /\ debugMessenger = "uninit"
        /\ surface = "uninit"
        /\ calls.vkEnumeratePhysicalDevices = 0
    /\ (enableValidationLayers /\ Len(started) >= 3) =>
        /\ debugMessenger # "uninit"
        /\ Count(created, "Diagnostics") = 1

C11_Witness ==
    /\ enableValidationLayers
    /\ procAddr.vkCreateDebugUtilsMessengerEXT = "nullptr"
    /\ instance = "live"
    /\ Exited

\* C12: the answer of the extension-support check never gates context
\* creation: whatever the extension catalog, once the layer check is passed
\* vkCreateInstance is called with the full required extension list, a
\* missing extension never yields CapabilityUnavailable, and createInstance
\* then fails only with ContextCreationFailed.
C12_ExtensionCheckDoesNotGate ==
    /\ PastLayerCheck =>
        /\ calls.vkCreateInstance = 1
        /\ instanceInfo # <<>>
        /\ instanceInfo[1].enabledExtensions = RequiredExtensions
        /\ error # CapabilityUnavailable
        /\ (started = <<"createInstance">> /\ error # NoError) =>
               error = ContextCreationFailed
        /\ out[Len(out)] = IF MissingExtensions = {}
                           THEN "All extensions supported: true"
                           ELSE "All extensions supported: false"
    /\ ~PastLayerCheck => calls.vkCreateInstance = 0
    /\ error = CapabilityUnavailable =>
           enableValidationLayers /\ MissingLayers # {}

C12_Witness ==
    /\ MissingExtensions # {}
    /\ calls.vkCreateInstance = 1
    /\ instance = "live"

\* C13: the debug messenger is live only while the instance is live (created
\* after it, destroyed before it); once setupDebugMessenger has completed
\* and until teardown, it is live exactly when diagnostics are enabled;
\* cleanup calls DestroyDebugUtilsMessengerEXT exactly when diagnostics are
\* enabled, and that call destroys nothing when the entry point does not
\* resolve.
C13_MessengerNestedInContext ==
    /\ debugMessenger = "live" => instance = "live"
    /\ (Len(completed) >= 2 /\ destroyed = <<>>) =>
           (debugMessenger = "live" <=> enableValidationLayers)
    /\ calls.DestroyDebugUtilsMessengerEXT =
           (IF destroyed # <<>> /\ enableValidationLayers THEN 1 ELSE 0)
    /\ procAddr.vkDestroyDebugUtilsMessengerEXT = "nullptr" =>
           Count(destroyed, "Diagnostics") = 0

\* C14: the layer list given at device creation equals the one given at
\* instance creation, the full validation-layer list when diagnostics are
\* enabled and empty otherwise; the device descriptor asks for exactly one
\* queue and no device extension.
C14_DeviceLayersMatchInstanceLayers ==
    deviceInfo # <<>> =>
        /\ instanceInfo # <<>>
        /\ deviceInfo[1].enabledLayers = instanceInfo[1].enabledLayers
        /\ deviceInfo[1].enabledLayers =
               (IF enableValidationLayers
                THEN <<"VK_LAYER_KHRONOS_validation">> ELSE <<>>)
        /\ deviceInfo[1].queueCreateInfoCount = 1
        /\ deviceInfo[1].queueCount = 1
        /\ deviceInfo[1].enabledExtensionCount = 0

C14_Witness ==
    /\ enableValidationLayers
    /\ device = "live"
    /\ deviceInfo # <<>>
    /\ deviceInfo[1].enabledLayers = <<"VK_LAYER_KHRONOS_validation">>

\* C16: whenever createLogicalDevice runs, physicalDevice is not null and the
\* queue-family query it repeats on that device finds an index, the one that
\* made the device pass selection; value() is never called on an empty
\* optional.
C16_RequeryFindsSelectionIndex ==
    /\ error # BadOptionalAccess
    /\ Len(started) = 5 =>
        /\ physicalDevice # VK_NULL_HANDLE
        /\ physicalDevice \in DOMAIN deviceFamilies
        /\ HasGraphics(deviceFamilies[physicalDevice])
        /\ deviceInfo # <<>>
        /\ deviceInfo[1].queueFamilyIndex =
               LeastGraphicsFamily(deviceFamilies[physicalDevice])

C16_Witness ==
    /\ Len(started) = 5
    /\ physicalDevice = 2
    /\ deviceFamilies[2] = <<2, 3, 3>>
    /\ deviceInfo[1].queueFamilyIndex = 1

FullyBootstrapped ==
    /\ completed = BootstrapOrder
    /\ window = "live"
    /\ instance = "live"
    /\ debugMessenger = (IF enableValidationLayers THEN "live" ELSE "uninit")
    /\ surface = "live"
    /\ device = "live"
    /\ Len(graphicsQueue) = 1
    /\ created = (IF enableValidationLayers
                  THEN <<"Context", "Diagnostics", "Surface", "Device">>
                  ELSE <<"Context", "Surface", "Device">>)
    /\ destroyed = <<>>

\* C17: the event loop is entered only in the fully bootstrapped state, no
\* handle is created or destroyed while it runs, and cleanup starts only
\* after glfwWindowShouldClose has returned true.
C17_LoopOnlyWhenBootstrapped ==
    /\ pc = "mainLoop" =>
        /\ FullyBootstrapped
        /\ windowShouldClose \in {<<>>, <<FALSE>>}
    /\ pc = "cleanup" =>
        /\ FullyBootstrapped
        /\ windowShouldClose = <<TRUE>>
    /\ destroyed # <<>> => windowShouldClose = <<TRUE>>
    /\ windowShouldClose # <<>> => completed = BootstrapOrder

C17_Witness ==
    /\ pc = "mainLoop"
    /\ windowShouldClose = <<FALSE>>
    /\ enableValidationLayers

\* C15: the bootstrap sequence always terminates: initVulkan reaches the
\* fully bootstrapped state (all five stages done) or a terminal failure,
\* and no stage is executed more than once in a run.  Stated as safety: as
\* long as bootstrap has neither finished nor failed, the thread is at the
\* one stage that follows those already run, with nothing started that has
\* not completed, and that stage can take its step; every step starts one
\* more stage, of which there are five.
BootstrapEnded == completed = BootstrapOrder \/ error # NoError

C15_BootstrapEventuallyEnds == <>BootstrapEnded

=============================================================================
